---- MODULE Spec2Model ----
(***************************************************************************)
(* Copy-trading agent: the position-synchronization engine.                *)
(*                                                                         *)
(*   TradeExecutor   src/src/services/tradeExecutor.ts                     *)
(*   LeaderState     src/src/domain/leaderState.ts                         *)
(*   FollowerState   src/unnamed/part_002  (domain/followerState.ts)       *)
(*   TraderStateStore, MarketMetadataService, utils/math: imported by the  *)
(*   files above; their bodies are modelled from spec.md (4.1, 4.4).       *)
(*                                                                         *)
(* Numbers.  JavaScript numbers are modelled as exact rationals [n, d]     *)
(* (normalised, d > 0).  Sizes are counted in units of 5e-7 coins, so that *)
(* the executor's dust threshold MIN_ABS_DELTA = 1e-6 is 2 units and the   *)
(* follower store's close threshold 1e-9 is 1/500 unit.  Prices and USD    *)
(* amounts are counted in USD (notional: units x USD).                     *)
(***************************************************************************)
EXTENDS Integers, Sequences, FiniteSets, TLC

\* ------------------------------------------------------------------ bounds

\* Largest sequence token / snapshot timestamp the environment delivers.
MaxToken == 3
\* Number of syncWithLeader() invocations that may be outstanding at once.
NumCalls == 2
\* Largest position size (in units) a fill or snapshot may produce.
MaxSize == 3

\* --------------------------------------------------------------- rationals

Abs(x) == IF x < 0 THEN -x ELSE x

RECURSIVE Gcd(_, _)
Gcd(a, b) == IF b = 0 THEN a ELSE Gcd(b, a % b)

\* The rational n/d, normalised (d /= 0).
Q(n, d) ==
  LET s == IF d < 0 THEN -1 ELSE 1
      g == Gcd(Abs(n), Abs(d))
  IN  [n |-> (s * n) \div g, d |-> (s * d) \div g]

QInt(x) == [n |-> x, d |-> 1]
Zero == QInt(0)
QAdd(a, b) == Q(a.n * b.d + b.n * a.d, a.d * b.d)
QSub(a, b) == Q(a.n * b.d - b.n * a.d, a.d * b.d)
QMul(a, b) == Q(a.n * b.n, a.d * b.d)
QDiv(a, b) == Q(a.n * b.d, a.d * b.n)
QNeg(a) == [n |-> -a.n, d |-> a.d]
QAbs(a) == [n |-> Abs(a.n), d |-> a.d]
QLt(a, b) == a.n * b.d < b.n * a.d
QLe(a, b) == a.n * b.d <= b.n * a.d
\* Math.min, Math.max, Math.sign
QMin(a, b) == IF QLt(b, a) THEN b ELSE a
QMax(a, b) == IF QLt(a, b) THEN b ELSE a
QSign(a) == IF a.n > 0 THEN 1 ELSE IF a.n < 0 THEN -1 ELSE 0
\* Math.floor of a rational
QFloor(a) == a.n \div a.d

\* ------------------------------------------------------------- utils/math

\* safeDivide(numerator, denominator, fallback): the fallback on division by
\* zero (all modelled numbers are finite).
safeDivide(numerator, denominator, fallback) ==
  IF denominator.n = 0 THEN fallback ELSE QDiv(numerator, denominator)

\* clamp(value, min, max)
clamp(value, min, max) == QMin(QMax(value, min), max)

\* -------------------------------------------------------------- data model

Coins == {"BTC", "ETH"}
Identities == {"leader", "follower"}

\* JavaScript's undefined: an absent position, an absent mark price.
undefined == [undefined |-> TRUE]

\* tradeExecutor.ts:22, 1e-6 coins = 2 units of 5e-7.
MIN_ABS_DELTA == 2
\* followerState.ts:95, 1e-9 coins = 1/500 unit.
CLOSE_DUST == Q(1, 500)

\* A PositionSnapshot.
Position(coin, size, entryPrice) ==
  [coin |-> coin, size |-> size, entryPrice |-> entryPrice]

\* Map.get(coin) on a store's positions: a Map is modelled by the sequence of
\* its entries in insertion order, one entry per key.
getPosition(positions_, coin) ==
  IF \E i \in DOMAIN positions_ : positions_[i].coin = coin
  THEN positions_[CHOOSE i \in DOMAIN positions_ : positions_[i].coin = coin]
  ELSE undefined

CoinsOf(positions_) == {positions_[i].coin : i \in DOMAIN positions_}

\* The market catalogue the metadata source serves: assetId and sizeDecimals.
MarketCatalog ==
  [c \in Coins |->
     IF c = "BTC" THEN [coin |-> c, assetId |-> 0, sizeDecimals |-> 5]
                  ELSE [coin |-> c, assetId |-> 1, sizeDecimals |-> 6]]

\* ------------------------------------------------- LeaderState.computeTargets

\* TargetOf with the notional taken from the leader's size instead of the
\* scaled size.
TargetOfUnscaledNotional(position, leaderMetrics, risk_) ==
  LET scaledSize == QMul(QInt(position.size), risk_.copyRatio)
      notionalUsd == QMul(QAbs(QInt(position.size)), position.entryPrice)
      impliedLeverage ==
        safeDivide(notionalUsd, leaderMetrics.accountValueUsd, Zero)
  IN  [coin |-> position.coin,
       size |-> scaledSize,
       notionalUsd |-> notionalUsd,
       impliedEntryPrice |-> position.entryPrice,
       impliedLeverage |-> impliedLeverage]

\* The body of the map callback: one TargetPosition per leader position.
TargetOf(position, leaderMetrics, risk_) ==
  LET scaledSize == QMul(QInt(position.size), risk_.copyRatio)
      notionalUsd == QMul(QAbs(scaledSize), position.entryPrice)
      impliedLeverage ==
        safeDivide(notionalUsd, leaderMetrics.accountValueUsd, Zero)
  IN  [coin |-> position.coin,
       size |-> scaledSize,
       notionalUsd |-> notionalUsd,
       impliedEntryPrice |-> position.entryPrice,
       impliedLeverage |-> impliedLeverage]

computeTargets(leaderPositions, leaderMetrics, risk_) ==
  [i \in 1..Len(leaderPositions) |->
     TargetOf(leaderPositions[i], leaderMetrics, risk_)]

\* ------------------------------------------------ FollowerState.computeDeltas

\* min(risk.maxNotionalUsd, risk.maxLeverage * equity)
globalNotionalCap(followerMetrics, risk_) ==
  LET equity == followerMetrics.accountValueUsd
      leverageCapNotional == QMul(risk_.maxLeverage, equity)
  IN  QMin(risk_.maxNotionalUsd, leverageCapNotional)

\* TargetDelta without the cap: the target's own notional is allowed.
TargetDeltaUncapped(target, followerPositions, followerMetrics, risk_) ==
  LET current == getPosition(followerPositions, target.coin)
      allowedNotional == target.notionalUsd
      allowedSize ==
        QMul(QInt(QSign(target.size)),
             safeDivide(allowedNotional, target.impliedEntryPrice, Zero))
      currentSize == IF current = undefined THEN Zero ELSE QInt(current.size)
  IN  [coin |-> target.coin,
       current |-> current,
       targetSize |-> allowedSize,
       deltaSize |-> QSub(allowedSize, currentSize),
       maxNotionalUsd |-> allowedNotional]

\* TargetDelta that takes the allowed size for the delta, without
\* subtracting the size the follower already holds.
TargetDeltaIgnoresCurrent(target, followerPositions, followerMetrics, risk_) ==
  LET current == getPosition(followerPositions, target.coin)
      allowedNotional ==
        QMin(target.notionalUsd, globalNotionalCap(followerMetrics, risk_))
      allowedSize ==
        QMul(QInt(QSign(target.size)),
             safeDivide(allowedNotional, target.impliedEntryPrice, Zero))
  IN  [coin |-> target.coin,
       current |-> current,
       targetSize |-> allowedSize,
       deltaSize |-> allowedSize,
       maxNotionalUsd |-> allowedNotional]

\* TargetDelta without Math.sign: the allowed size is taken as a long.
TargetDeltaUnsigned(target, followerPositions, followerMetrics, risk_) ==
  LET current == getPosition(followerPositions, target.coin)
      allowedNotional ==
        QMin(target.notionalUsd, globalNotionalCap(followerMetrics, risk_))
      allowedSize ==
        safeDivide(allowedNotional, target.impliedEntryPrice, Zero)
      currentSize == IF current = undefined THEN Zero ELSE QInt(current.size)
  IN  [coin |-> target.coin,
       current |-> current,
       targetSize |-> allowedSize,
       deltaSize |-> QSub(allowedSize, currentSize),
       maxNotionalUsd |-> allowedNotional]

\* The body of the first loop: the delta towards one target.
TargetDelta(target, followerPositions, followerMetrics, risk_) ==
  LET current == getPosition(followerPositions, target.coin)
      price == target.impliedEntryPrice
      allowedNotional ==
        QMin(target.notionalUsd, globalNotionalCap(followerMetrics, risk_))
      allowedSize ==
        QMul(QInt(QSign(target.size)), safeDivide(allowedNotional, price, Zero))
      currentSize == IF current = undefined THEN Zero ELSE QInt(current.size)
      deltaSize == QSub(allowedSize, currentSize)
  IN  [coin |-> target.coin,
       current |-> current,
       targetSize |-> allowedSize,
       deltaSize |-> deltaSize,
       maxNotionalUsd |-> allowedNotional]

\* CloseDelta with the sign of the delta lost.
CloseDeltaWrongSign(position) ==
  [coin |-> position.coin,
   current |-> position,
   targetSize |-> Zero,
   deltaSize |-> QInt(position.size),
   maxNotionalUsd |-> Zero]

\* The body of the second loop: the close delta of a position without target.
CloseDelta(position) ==
  [coin |-> position.coin,
   current |-> position,
   targetSize |-> Zero,
   deltaSize |-> QNeg(QInt(position.size)),
   maxNotionalUsd |-> Zero]

\* The second loop's filter without the test on the target coins.
NeedsCloseAnyCoin(position, targetCoins) ==
  ~ QLt(QAbs(QInt(position.size)), CLOSE_DUST)

\* The second loop's filter: not a target coin, and not a dust position.
NeedsClose(position, targetCoins) ==
  /\ position.coin \notin targetCoins
  /\ ~ QLt(QAbs(QInt(position.size)), CLOSE_DUST)

\* computeDeltas with the closing loop run before the target loop.
computeDeltasClosesFirst(targets, followerPositions, followerMetrics, risk_) ==
  LET targetCoins == {targets[i].coin : i \in DOMAIN targets}
      closes ==
        SelectSeq(followerPositions, LAMBDA p : NeedsClose(p, targetCoins))
  IN  [i \in 1..Len(closes) |-> CloseDelta(closes[i])]
      \o [i \in 1..Len(targets) |->
            TargetDelta(targets[i], followerPositions, followerMetrics, risk_)]

\* The first loop over the targets, then the second over the follower's
\* positions: the deltas in the order they are pushed.
computeDeltas(targets, followerPositions, followerMetrics, risk_) ==
  LET targetCoins == {targets[i].coin : i \in DOMAIN targets}
      closes ==
        SelectSeq(followerPositions, LAMBDA p : NeedsClose(p, targetCoins))
  IN  [i \in 1..Len(targets) |->
         TargetDelta(targets[i], followerPositions, followerMetrics, risk_)]
      \o [i \in 1..Len(closes) |-> CloseDelta(closes[i])]

\* ---------------------------------------------------- TradeExecutor.buildOrder

RECURSIVE Pow10(_)
Pow10(k) == IF k = 0 THEN 1 ELSE 10 * Pow10(k - 1)

\* 1 coin in size units: 1e-6 coin is MIN_ABS_DELTA units.
UnitsPerCoin == MIN_ABS_DELTA * Pow10(6)

\* Number.prototype.toFixed(decimals) of a non-negative size: the nearest
\* multiple of 10^-decimals coins (of two equally near, the larger).
toFixed(x, decimals) ==
  LET step == Q(UnitsPerCoin, Pow10(decimals))
      k == QFloor(QAdd(QDiv(x, step), Q(1, 2)))
  IN  QMul(QInt(k), step)

\* referencePrice with the entry price taken before the mark price.
referencePriceEntryFirst(delta, markPrice_) ==
  IF delta.current # undefined THEN delta.current.entryPrice
  ELSE IF markPrice_[delta.coin] # undefined THEN markPrice_[delta.coin]
  ELSE Zero

\* metadataService.getMarkPrice(coin) ?? delta.current?.entryPrice ?? 0
referencePrice(delta, markPrice_) ==
  IF markPrice_[delta.coin] # undefined THEN markPrice_[delta.coin]
  ELSE IF delta.current # undefined THEN delta.current.entryPrice
  ELSE Zero

sideIsBuy(delta) == delta.deltaSize.n > 0

\* priceMultiplier with the two sides exchanged.
priceMultiplierSwapped(delta, risk_) ==
  LET slippage == Q(risk_.maxSlippageBps, 10000)
  IN  IF sideIsBuy(delta) THEN QSub(QInt(1), slippage)
                          ELSE QAdd(QInt(1), slippage)

\* sideIsBuy ? 1 + slippage : 1 - slippage
priceMultiplier(delta, risk_) ==
  LET slippage == Q(risk_.maxSlippageBps, 10000)
  IN  IF sideIsBuy(delta) THEN QAdd(QInt(1), slippage)
                          ELSE QSub(QInt(1), slippage)

\* clamp(markPrice * priceMultiplier, markPrice * 0.1, markPrice * 10)
limitPrice(delta, risk_, markPrice_) ==
  LET mark == referencePrice(delta, markPrice_)
  IN  clamp(QMul(mark, priceMultiplier(delta, risk_)),
            QMul(mark, Q(1, 10)), QMul(mark, QInt(10)))

\* reduceOnly without the closing case.
reduceOnlyNoClose(delta) ==
  IF delta.current = undefined THEN FALSE
  ELSE /\ QSign(QInt(delta.current.size)) = QSign(delta.targetSize)
       /\ QLt(QAbs(delta.targetSize), QAbs(QInt(delta.current.size)))

\* reduceOnly decided by the side alone: every sell is reduce-only.
reduceOnlyEverySell(delta) == QLt(delta.deltaSize, Zero)

\* The reduce-only decision.
reduceOnly(delta) ==
  IF delta.current = undefined THEN FALSE
  ELSE LET currentSize == QInt(delta.current.size)
           targetSize == delta.targetSize
       IN  IF QLt(QAbs(targetSize), QInt(MIN_ABS_DELTA)) THEN TRUE
           ELSE /\ QSign(currentSize) = QSign(targetSize)
                /\ QLt(QAbs(targetSize), QAbs(currentSize))

\* The order object (the random client order id c is left out).  p and s are
\* the numbers the strings price.toString() and size.toFixed() denote.
buildOrder(delta, risk_, markPrice_) ==
  LET metadata == MarketCatalog[delta.coin]
  IN  [a |-> metadata.assetId,
       b |-> sideIsBuy(delta),
       p |-> limitPrice(delta, risk_, markPrice_),
       s |-> toFixed(QAbs(delta.deltaSize), metadata.sizeDecimals),
       r |-> reduceOnly(delta),
       t |-> "Ioc"]

\* isActionable that keeps a delta of exactly MIN_ABS_DELTA.
isActionableInclusive(delta) == QLe(QInt(MIN_ABS_DELTA), QAbs(delta.deltaSize))

\* deltas.filter((delta) => Math.abs(delta.deltaSize) > MIN_ABS_DELTA)
isActionable(delta) == QLt(QInt(MIN_ABS_DELTA), QAbs(delta.deltaSize))

actionableOf(deltas) == SelectSeq(deltas, isActionable)

\* ------------------------------------------------- TraderStateStore (spec 4.1)

\* A store after construction: no positions, zero metrics, no fill applied.
EmptyStore ==
  [positions |-> << >>,
   metrics |-> [accountValueUsd |-> Zero],
   lastToken |-> [c \in Coins |-> 0]]

\* The timestamp of the most recent applied fill for any coin.
latestFill(store) ==
  CHOOSE t \in {store.lastToken[c] : c \in Coins} :
    \A c \in Coins : store.lastToken[c] <= t

\* The positions with the entry of coin replaced in place, appended when the
\* coin is new (Map.set), or deleted (Map.delete).
setPosition(positions_, position) ==
  IF position.coin \in CoinsOf(positions_)
  THEN [i \in DOMAIN positions_ |->
          IF positions_[i].coin = position.coin THEN position
          ELSE positions_[i]]
  ELSE Append(positions_, position)

deletePosition(positions_, coin) ==
  SelectSeq(positions_, LAMBDA p : p.coin # coin)

\* The position after a fill: size = old size + fillSizeDelta; the entry price
\* is the size-weighted average on an increase, unchanged on a reduction, the
\* fill price after the size crossed zero; no entry when the size is zero.
filledPosition(current, coin, fillSizeDelta, fillPrice) ==
  LET oldSize == IF current = undefined THEN 0 ELSE current.size
      newSize == oldSize + fillSizeDelta
      entry ==
        IF oldSize = 0 \/ oldSize * newSize < 0 THEN fillPrice
        ELSE IF Abs(newSize) > Abs(oldSize)
        THEN QDiv(QAdd(QMul(QInt(Abs(oldSize)), current.entryPrice),
                       QMul(QInt(Abs(fillSizeDelta)), fillPrice)),
                  QInt(Abs(newSize)))
        ELSE current.entryPrice
  IN  Position(coin, newSize, entry)

\* fillRejected that lets a replay of the last applied token through.
fillRejectedOlderOnly(store, coin, sequenceToken) ==
  sequenceToken < store.lastToken[coin]

\* A fill is rejected when its token is not newer than the last one applied
\* for its coin.
fillRejected(store, coin, sequenceToken) ==
  sequenceToken <= store.lastToken[coin]

\* applyFill that keeps the entry of a position whose size reached zero.
applyFillKeepsZero(store, coin, fillSizeDelta, fillPrice, sequenceToken) ==
  IF fillRejected(store, coin, sequenceToken) THEN store
  ELSE [store EXCEPT
          !.positions =
             setPosition(store.positions,
                         filledPosition(getPosition(store.positions, coin),
                                        coin, fillSizeDelta, fillPrice)),
          !.lastToken[coin] = sequenceToken]

applyFill(store, coin, fillSizeDelta, fillPrice, sequenceToken) ==
  IF fillRejected(store, coin, sequenceToken) THEN store
  ELSE LET next ==
             filledPosition(getPosition(store.positions, coin), coin,
                            fillSizeDelta, fillPrice)
       IN  [store EXCEPT
              !.positions =
                 IF next.size = 0 THEN deletePosition(store.positions, coin)
                 ELSE setPosition(store.positions, next),
              !.lastToken[coin] = sequenceToken]

\* snapshotRejected without the grace window.
snapshotRejectedNoGrace(store, snapshotTimestamp, grace) ==
  snapshotTimestamp < latestFill(store)

\* A snapshot is rejected when it is older than the most recent applied fill
\* of the identity minus the grace window.
snapshotRejected(store, snapshotTimestamp, grace) ==
  snapshotTimestamp < latestFill(store) - grace

\* Wholesale replacement; an entry of size zero is treated as absent.
applySnapshot(store, snapshot, metrics_, snapshotTimestamp, grace) ==
  IF snapshotRejected(store, snapshotTimestamp, grace) THEN store
  ELSE [store EXCEPT
          !.positions = SelectSeq(snapshot, LAMBDA p : p.size # 0),
          !.metrics = metrics_]

\* ---------------------------------------------------------------- inputs

Risk(copyRatio, maxLeverage, maxNotionalUsd, maxSlippageBps) ==
  [copyRatio |-> copyRatio,
   maxLeverage |-> QInt(maxLeverage),
   maxNotionalUsd |-> QInt(maxNotionalUsd),
   maxSlippageBps |-> maxSlippageBps]

\* Risk configurations: full and half copy ratio; the leverage cap or the
\* notional cap binding; no, small, and clamp-exceeding slippage.
RiskConfigs ==
  {Risk(QInt(1), 2, 100, 25), Risk(Q(1, 2), 1, 100, 0),
   Risk(QInt(1), 10, 5, 9500), Risk(Q(1, 2), 2, 100, 95000)}

Sizes == {s \in -MaxSize..MaxSize : s # 0}
LeaderSizes == {-MaxSize, -1, 2, MaxSize}
FollowerSizes == {-MaxSize, 1, MaxSize}
LeaderPrices == {0, 2}
FollowerPrices == {2}
MarkPrices == {1, 3}
Equities == {0, 3}

Entries(sizes, prices) ==
  {Position(c, sz, QInt(px)) : c \in Coins, sz \in sizes, px \in prices}

\* Every list of positions with at most one entry per coin.
PositionLists(sizes, prices) ==
  {<< >>}
  \cup {<<e>> : e \in Entries(sizes, prices)}
  \cup {<<pair[1], pair[2]>> :
          pair \in {q \in Entries(sizes, prices) \X Entries(sizes, prices) :
                      q[1].coin # q[2].coin}}

Metrics(accountValueUsd) == [accountValueUsd |-> QInt(accountValueUsd)]

Calls == 1..NumCalls

\* ------------------------------------------------------------------ state

VARIABLES
  risk,         \* deps.risk, immutable
  graceWindow,  \* the stores' snapshot grace window, immutable
  stores,       \* [Identities -> store]: LeaderState and FollowerState
  metaLoaded,   \* MarketMetadataService: metadata loaded
  markets,      \* MarketMetadataService: the coins with metadata
  markPrice,    \* MarketMetadataService: [Coins -> price or undefined]
  syncing,      \* TradeExecutor.syncing
  pc,           \* [Calls -> where the invocation of syncWithLeader is]
  outcome,      \* [Calls -> how the invocation ended]
  deps,         \* [Calls -> what the invocation called, and how it went]
  overlapped,   \* [Calls -> the invocation in flight when this one was dropped]
  orderCalls,   \* [Calls -> number of exchangeClient.order() calls made]
  frames,       \* [Calls -> the locals of the synchronous block, or NoFrame]
  lastOp        \* the last store operation and its arguments

vars ==
  <<risk, graceWindow, stores, metaLoaded, markets, markPrice, syncing, pc,
    outcome, deps, overlapped, orderCalls, frames, lastOp>>

execVars == <<syncing, pc, outcome, deps, overlapped, orderCalls, frames>>
metaVars == <<metaLoaded, markets, markPrice>>

NoFrame == [empty |-> TRUE]

\* What an invocation has called so far: each awaited call is "none",
\* "pending", "resolved" or "rejected"; computed: computeDeltas has run.
NoDeps ==
  [ensureLoaded |-> "none", refreshMarkPrices |-> "none", order |-> "none",
   computed |-> FALSE]

InFlight(c) == pc[c] \in {"ensureLoaded", "refreshMarkPrices", "order"}
NoOp == [op |-> "none"]

\* ------------------------------------------- TradeExecutor.syncWithLeader

\* SyncFrame with the two stores exchanged: the targets taken from the
\* follower's store and the deltas computed against the leader's.
SyncFrameSwapsStores(leaderStore, followerStore, risk_, markets_, markPrice_) ==
  LET targets ==
        computeTargets(followerStore.positions, followerStore.metrics, risk_)
      deltas ==
        computeDeltas(targets, leaderStore.positions, leaderStore.metrics, risk_)
      actionable == actionableOf(deltas)
      built == \A i \in DOMAIN actionable : actionable[i].coin \in markets_
  IN  [leader |-> leaderStore,
       follower |-> followerStore,
       marks |-> markPrice_,
       targets |-> targets,
       deltas |-> deltas,
       actionable |-> actionable,
       built |-> built,
       orders |->
         IF built
         THEN [i \in 1..Len(actionable) |->
                 buildOrder(actionable[i], risk_, markPrice_)]
         ELSE << >>]

\* Lines 76-90: targets, deltas, the dust filter and the orders, computed
\* without suspension from one state of the stores and the metadata cache.
\* built is FALSE when requireByCoin throws for an actionable delta.
SyncFrame(leaderStore, followerStore, risk_, markets_, markPrice_) ==
  LET targets == computeTargets(leaderStore.positions, leaderStore.metrics, risk_)
      deltas ==
        computeDeltas(targets, followerStore.positions, followerStore.metrics,
                      risk_)
      actionable == actionableOf(deltas)
      built == \A i \in DOMAIN actionable : actionable[i].coin \in markets_
  IN  [leader |-> leaderStore,
       follower |-> followerStore,
       marks |-> markPrice_,
       targets |-> targets,
       deltas |-> deltas,
       actionable |-> actionable,
       built |-> built,
       orders |->
         IF built
         THEN [i \in 1..Len(actionable) |->
                 buildOrder(actionable[i], risk_, markPrice_)]
         ELSE << >>]

\* catch: log and rethrow; finally: this.syncing = false.
Throw(c) ==
  /\ syncing' = FALSE
  /\ pc' = [pc EXCEPT ![c] = "done"]
  /\ outcome' = [outcome EXCEPT ![c] = "threw"]

\* Call without the single-flight guard: every call starts a pass.
CallUnguarded(c) ==
  /\ pc[c] = "idle"
  /\ syncing' = TRUE
  /\ pc' = [pc EXCEPT ![c] = "ensureLoaded"]
  /\ deps' = [deps EXCEPT ![c].ensureLoaded = "pending"]
  /\ UNCHANGED <<outcome, overlapped>>
  /\ UNCHANGED <<risk, graceWindow, stores, metaVars, orderCalls, frames, lastOp>>

\* Call with the guard tested inside the try block: the return of a dropped
\* call runs the finally clause and clears the flag.
CallDropClearsGuard(c) ==
  /\ pc[c] = "idle"
  /\ IF syncing
     THEN /\ pc' = [pc EXCEPT ![c] = "done"]
          /\ outcome' = [outcome EXCEPT ![c] = "dropped"]
          /\ overlapped' =
               [overlapped EXCEPT
                  ![c] = IF \E d \in Calls : InFlight(d)
                         THEN CHOOSE d \in Calls : InFlight(d) ELSE 0]
          /\ syncing' = FALSE
          /\ UNCHANGED deps
     ELSE /\ syncing' = TRUE
          /\ pc' = [pc EXCEPT ![c] = "ensureLoaded"]
          /\ deps' = [deps EXCEPT ![c].ensureLoaded = "pending"]
          /\ UNCHANGED <<outcome, overlapped>>
  /\ UNCHANGED <<risk, graceWindow, stores, metaVars, orderCalls, frames, lastOp>>

\* Lines 64-72: the guard, and the call of ensureLoaded().
Call(c) ==
  /\ pc[c] = "idle"
  /\ IF syncing
     THEN /\ pc' = [pc EXCEPT ![c] = "done"]
          /\ outcome' = [outcome EXCEPT ![c] = "dropped"]
          /\ overlapped' =
               [overlapped EXCEPT
                  ![c] = IF \E d \in Calls : InFlight(d)
                         THEN CHOOSE d \in Calls : InFlight(d) ELSE 0]
          /\ UNCHANGED <<syncing, deps>>
     ELSE /\ syncing' = TRUE
          /\ pc' = [pc EXCEPT ![c] = "ensureLoaded"]
          /\ deps' = [deps EXCEPT ![c].ensureLoaded = "pending"]
          /\ UNCHANGED <<outcome, overlapped>>
  /\ UNCHANGED <<risk, graceWindow, stores, metaVars, orderCalls, frames, lastOp>>

\* Line 72 resumes: ensureLoaded() resolved (the metadata is loaded, now or
\* before) and refreshMarkPrices() is called, or it rejected.
EnsureLoadedDone(c, ok, universe) ==
  /\ pc[c] = "ensureLoaded"
  /\ IF ok
     THEN /\ metaLoaded' = TRUE
          /\ markets' = IF metaLoaded THEN markets ELSE universe
          /\ pc' = [pc EXCEPT ![c] = "refreshMarkPrices"]
          /\ deps' = [deps EXCEPT ![c].ensureLoaded = "resolved",
                                   ![c].refreshMarkPrices = "pending"]
          /\ UNCHANGED <<syncing, outcome>>
     ELSE /\ ~ metaLoaded
          /\ Throw(c)
          /\ deps' = [deps EXCEPT ![c].ensureLoaded = "rejected"]
          /\ UNCHANGED <<metaLoaded, markets>>
  /\ UNCHANGED <<risk, graceWindow, stores, markPrice, overlapped, orderCalls,
                 frames, lastOp>>

\* The cache after a refresh that fetched mids: the fetched price replaces
\* the cached one; a coin the response leaves out keeps its value.
refreshed(markPrice_, mids) ==
  [c \in Coins |-> IF mids[c] = undefined THEN markPrice_[c] ELSE mids[c]]

\* Lines 73-100 resume: refreshMarkPrices() resolved and the synchronous
\* block runs up to the call of exchangeClient.order(), or it rejected.
RefreshDone(c, ok, mids) ==
  /\ pc[c] = "refreshMarkPrices"
  /\ IF ok
     THEN LET marks == refreshed(markPrice, mids)
              frame ==
                SyncFrame(stores["leader"], stores["follower"], risk, markets,
                          marks)
          IN  /\ markPrice' = marks
              /\ deps' =
                   [deps EXCEPT
                      ![c].refreshMarkPrices = "resolved",
                      ![c].computed = TRUE,
                      ![c].order = IF frame.actionable # << >> /\ frame.built
                                   THEN "pending" ELSE "none"]
              /\ IF frame.actionable = << >>
                 THEN /\ syncing' = FALSE
                      /\ pc' = [pc EXCEPT ![c] = "done"]
                      /\ outcome' = [outcome EXCEPT ![c] = "synchronized"]
                      /\ UNCHANGED <<orderCalls, frames>>
                 ELSE IF ~ frame.built
                 THEN /\ Throw(c)
                      /\ UNCHANGED <<orderCalls, frames>>
                 ELSE /\ pc' = [pc EXCEPT ![c] = "order"]
                      /\ orderCalls' = [orderCalls EXCEPT ![c] = @ + 1]
                      /\ frames' = [frames EXCEPT ![c] = frame]
                      /\ UNCHANGED <<syncing, outcome>>
     ELSE /\ Throw(c)
          /\ deps' = [deps EXCEPT ![c].refreshMarkPrices = "rejected"]
          /\ UNCHANGED <<markPrice, orderCalls, frames>>
  /\ UNCHANGED <<risk, graceWindow, stores, metaLoaded, markets, overlapped,
                 lastOp>>

\* OrderDone without the finally clause on the failure path: the error is
\* rethrown with the guard still set.
OrderDoneNoFinally(c, ok) ==
  /\ pc[c] = "order"
  /\ pc' = [pc EXCEPT ![c] = "done"]
  /\ outcome' = [outcome EXCEPT ![c] = IF ok THEN "submitted" ELSE "threw"]
  /\ syncing' = IF ok THEN FALSE ELSE syncing
  /\ deps' = [deps EXCEPT ![c].order = IF ok THEN "resolved" ELSE "rejected"]
  /\ frames' = [frames EXCEPT ![c] = NoFrame]
  /\ UNCHANGED <<risk, graceWindow, stores, metaVars, overlapped, orderCalls,
                 lastOp>>

\* OrderDone that books the submitted batch itself: after a successful
\* submission it removes from the follower store the positions the batch
\* touches, instead of waiting for the fills.
OrderDoneBooksBatch(c, ok) ==
  /\ pc[c] = "order"
  /\ IF ok
     THEN /\ syncing' = FALSE
          /\ pc' = [pc EXCEPT ![c] = "done"]
          /\ outcome' = [outcome EXCEPT ![c] = "submitted"]
     ELSE Throw(c)
  /\ deps' = [deps EXCEPT ![c].order = IF ok THEN "resolved" ELSE "rejected"]
  /\ frames' = [frames EXCEPT ![c] = NoFrame]
  /\ stores' =
       IF ok
       THEN [stores EXCEPT
               !["follower"].positions =
                  SelectSeq(@, LAMBDA p :
                    \A i \in DOMAIN frames[c].actionable :
                      frames[c].actionable[i].coin # p.coin)]
       ELSE stores
  /\ UNCHANGED <<risk, graceWindow, metaVars, overlapped, orderCalls, lastOp>>

\* Lines 97-106 resume: the batch call resolved or rejected.
OrderDone(c, ok) ==
  /\ pc[c] = "order"
  /\ IF ok
     THEN /\ syncing' = FALSE
          /\ pc' = [pc EXCEPT ![c] = "done"]
          /\ outcome' = [outcome EXCEPT ![c] = "submitted"]
     ELSE Throw(c)
  /\ deps' = [deps EXCEPT ![c].order = IF ok THEN "resolved" ELSE "rejected"]
  /\ frames' = [frames EXCEPT ![c] = NoFrame]
  /\ UNCHANGED <<risk, graceWindow, stores, metaVars, overlapped, orderCalls,
                 lastOp>>

\* The caller is done with the invocation; the next trigger may call again.
Trigger(c) ==
  /\ pc[c] = "done"
  /\ pc' = [pc EXCEPT ![c] = "idle"]
  /\ outcome' = [outcome EXCEPT ![c] = "none"]
  /\ deps' = [deps EXCEPT ![c] = NoDeps]
  /\ overlapped' = [d \in Calls |->
                      IF d = c \/ overlapped[d] = c THEN 0 ELSE overlapped[d]]
  /\ orderCalls' = [orderCalls EXCEPT ![c] = 0]
  /\ UNCHANGED <<risk, graceWindow, stores, metaVars, syncing, frames, lastOp>>

\* --------------------------------------------------- Event Ingestion (4.6)

\* A streamed fill reaches the store of identity id.
StreamFill(id, coin, fillSizeDelta, fillPrice, sequenceToken) ==
  /\ stores' = [stores EXCEPT
                  ![id] = applyFill(@, coin, fillSizeDelta, fillPrice,
                                    sequenceToken)]
  /\ lastOp' = [op |-> "applyFill", id |-> id, coin |-> coin,
                fillSizeDelta |-> fillSizeDelta, fillPrice |-> fillPrice,
                token |-> sequenceToken]
  /\ UNCHANGED <<risk, graceWindow, metaVars, execVars>>

\* A reconciliation snapshot reaches the store of identity id.
Reconcile(id, snapshot, metrics_, snapshotTimestamp) ==
  /\ stores' = [stores EXCEPT
                  ![id] = applySnapshot(@, snapshot, metrics_,
                                        snapshotTimestamp, graceWindow)]
  /\ lastOp' = [op |-> "applySnapshot", id |-> id, snapshot |-> snapshot,
                metrics |-> metrics_, timestamp |-> snapshotTimestamp]
  /\ UNCHANGED <<risk, graceWindow, metaVars, execVars>>

\* ---------------------------------------------------------- specifications

InitExecutor ==
  /\ metaLoaded = FALSE
  /\ markets = {}
  /\ markPrice = [c \in Coins |-> undefined]
  /\ syncing = FALSE
  /\ pc = [c \in Calls |-> "idle"]
  /\ outcome = [c \in Calls |-> "none"]
  /\ deps = [c \in Calls |-> NoDeps]
  /\ overlapped = [c \in Calls |-> 0]
  /\ orderCalls = [c \in Calls |-> 0]
  /\ frames = [c \in Calls |-> NoFrame]
  /\ lastOp = NoOp

\* The synchronous block as a function of its inputs: the stores, the risk
\* configuration and the mark prices are drawn from the input sets.
InitPure ==
  /\ InitExecutor
  /\ risk \in RiskConfigs
  /\ graceWindow = 0
  /\ \E lp \in PositionLists(LeaderSizes, LeaderPrices),
        fp \in PositionLists(FollowerSizes, FollowerPrices),
        le \in {0, 4}, fe \in Equities :
       stores = [id \in Identities |->
                   IF id = "leader"
                   THEN [EmptyStore EXCEPT !.positions = lp,
                                           !.metrics = Metrics(le)]
                   ELSE [EmptyStore EXCEPT !.positions = fp,
                                           !.metrics = Metrics(fe)]]

\* Evaluate in which computeDeltas, having synthesized the closing deltas,
\* deletes the positions without target from the follower's map.
EvaluatePrunesStore(marks) ==
  /\ frames[1] = NoFrame
  /\ frames' = [frames EXCEPT
                  ![1] = SyncFrame(stores["leader"], stores["follower"], risk,
                                   Coins, marks)]
  /\ markPrice' = marks
  /\ stores' =
       [stores EXCEPT
          !["follower"].positions =
             SelectSeq(@, LAMBDA p : p.coin \in CoinsOf(stores["leader"].positions))]
  /\ UNCHANGED <<risk, graceWindow, metaLoaded, markets, syncing, pc,
                 outcome, deps, overlapped, orderCalls, lastOp>>

\* The synchronous block of a pass (lines 76-90) run on the stores as they
\* are, with the mark prices the cache holds.
Evaluate(marks) ==
  /\ frames[1] = NoFrame
  /\ frames' = [frames EXCEPT
                  ![1] = SyncFrame(stores["leader"], stores["follower"], risk,
                                   Coins, marks)]
  /\ markPrice' = marks
  /\ UNCHANGED <<risk, graceWindow, stores, metaLoaded, markets, syncing, pc,
                 outcome, deps, overlapped, orderCalls, lastOp>>

NextPure ==
  \E marks \in {[c \in Coins |-> IF c = "BTC" THEN QInt(3) ELSE undefined],
                [c \in Coins |-> IF c = "ETH" THEN QInt(1) ELSE undefined],
                [c \in Coins |-> undefined]} :
    Evaluate(marks)

SpecPure == InitPure /\ [][NextPure]_vars

\* The synchronous block run a second time, by the next pass, with no store
\* operation and no price refresh in between.
Recompute ==
  /\ frames[1] # NoFrame
  /\ frames[2] = NoFrame
  /\ frames' = [frames EXCEPT
                  ![2] = SyncFrame(stores["leader"], stores["follower"], risk,
                                   Coins, markPrice)]
  /\ UNCHANGED <<risk, graceWindow, stores, metaVars, syncing, pc, outcome,
                 deps, overlapped, orderCalls, lastOp>>

InitTwice ==
  /\ InitPure
  /\ stores["leader"].metrics = Metrics(4)

NextTwice ==
  \/ NextPure
  \/ Recompute

SpecTwice == InitTwice /\ [][NextTwice]_vars

\* A pass, the complete fill of its batch, and the next pass.  The sizes
\* reach past one rounding step of the coarser market (20 units), and the
\* follower's equity leaves the leader's notional under the cap.
FillLeaderSizes == {-13, 10}
FillFollowerSizes == {-1, 20}
FillEquities == {20}

\* The follower's store after the orders i.. of the frame's batch have each
\* filled at the size the order states, one fill per order.
RECURSIVE FillOrders(_, _, _, _)
FillOrders(store, frame, i, fillPrice) ==
  IF i > Len(frame.orders) THEN store
  ELSE LET order == frame.orders[i]
           fillSizeDelta == IF order.b THEN order.s.n ELSE -order.s.n
       IN  FillOrders(applyFill(store, frame.actionable[i].coin, fillSizeDelta,
                                fillPrice, store.lastToken[frame.actionable[i].coin] + 1),
                      frame, i + 1, fillPrice)

\* Every order of the batch of the first pass fills completely; the fills
\* reach the follower's store before the next pass.  An order of size 0
\* or of limit price 0 has nothing to fill, so such a batch is not filled.
FillBatch ==
  /\ frames[1] # NoFrame
  /\ frames[2] = NoFrame
  /\ lastOp = NoOp
  /\ frames[1].orders # << >>
  /\ \A i \in DOMAIN frames[1].orders :
       /\ QLt(Zero, frames[1].orders[i].s)
       /\ frames[1].orders[i].s.d = 1
       /\ QLt(Zero, frames[1].orders[i].p)
  /\ \E fillPrice \in FollowerPrices :
       stores' = [stores EXCEPT
                    !["follower"] = FillOrders(@, frames[1], 1, QInt(fillPrice))]
  /\ lastOp' = [op |-> "fillBatch"]
  /\ UNCHANGED <<risk, graceWindow, metaVars, execVars>>

InitFill ==
  /\ InitExecutor
  /\ risk \in RiskConfigs
  /\ graceWindow = 0
  /\ \E lp \in PositionLists(FillLeaderSizes, FollowerPrices),
        fp \in PositionLists(FillFollowerSizes, FollowerPrices),
        fe \in FillEquities :
       stores = [id \in Identities |->
                   IF id = "leader"
                   THEN [EmptyStore EXCEPT !.positions = lp,
                                           !.metrics = Metrics(4)]
                   ELSE [EmptyStore EXCEPT !.positions = fp,
                                           !.metrics = Metrics(fe)]]

NextFill ==
  \/ NextPure
  \/ FillBatch
  \/ Recompute

SpecFill == InitFill /\ [][NextFill]_vars

\* The executor with reconciliation snapshots arriving at any time.  The
\* state after construction: empty stores, nothing loaded, no pass running.
Init ==
  /\ InitExecutor
  /\ risk = Risk(QInt(1), 2, 100, 25)
  /\ graceWindow = 0
  /\ stores = [id \in Identities |-> EmptyStore]

\* The snapshots the reconciliation poll delivers while the executor runs.
PolledSnapshots(id) ==
  IF id = "leader"
  THEN {<< >>, <<Position("BTC", MaxSize, QInt(2))>>,
        <<Position("ETH", -MaxSize, QInt(2)), Position("BTC", 1, QInt(2))>>}
  ELSE {<< >>, <<Position("ETH", 1, QInt(2))>>,
        <<Position("BTC", MaxSize, QInt(2)), Position("ETH", MaxSize, QInt(2))>>}

\* The market universes the metadata source may serve.
MetaUniverses == {Coins, {"BTC"}}

\* The mids a price refresh may fetch.
Mids == [Coins -> {undefined, QInt(3)}]

Next ==
  \/ \E c \in Calls : Call(c)
  \/ \E c \in Calls, ok \in BOOLEAN, u \in MetaUniverses :
       EnsureLoadedDone(c, ok, u)
  \/ \E c \in Calls, ok \in BOOLEAN, mids \in Mids : RefreshDone(c, ok, mids)
  \/ \E c \in Calls, ok \in BOOLEAN : OrderDone(c, ok)
  \/ \E c \in Calls : Trigger(c)
  \/ \E id \in Identities : \E snapshot \in PolledSnapshots(id) :
       Reconcile(id, snapshot, Metrics(2), 0)

Spec == Init /\ [][Next]_vars

\* One store under arbitrary delivery of streamed fills and polled
\* snapshots.  The leader and the follower store are independent instances
\* of the same class; this specification drives one.
MaxGrace == 1
FillSizes == {-1, 2}
FillPrices == {2}
StoreSnapshots ==
  {<< >>, <<Position("BTC", 1, QInt(2))>>,
   <<Position("ETH", -1, QInt(2)), Position("BTC", 0, QInt(2))>>}

InitStore ==
  /\ InitExecutor
  /\ risk = Risk(QInt(1), 2, 100, 25)
  /\ graceWindow \in 0..MaxGrace
  /\ stores = [id \in Identities |-> EmptyStore]

\* Whether the fill keeps the position within the size bound.
WithinSizeBound(id, coin, fillSizeDelta) ==
  LET current == getPosition(stores[id].positions, coin)
      oldSize == IF current = undefined THEN 0 ELSE current.size
  IN  Abs(oldSize + fillSizeDelta) <= MaxSize

NextStore ==
  \/ \E coin \in Coins, fillSizeDelta \in FillSizes, fillPrice \in FillPrices,
        sequenceToken \in 1..MaxToken :
       /\ WithinSizeBound("leader", coin, fillSizeDelta)
       /\ StreamFill("leader", coin, fillSizeDelta, QInt(fillPrice),
                     sequenceToken)
  \/ \E snapshot \in StoreSnapshots, snapshotTimestamp \in 0..MaxToken :
       Reconcile("leader", snapshot, Metrics(2), snapshotTimestamp)

SpecStore == InitStore /\ [][NextStore]_vars

\* ------------------------------------------------------------------ claims

\* C1.  Single-flight: at most one pass is in flight at any time; a call
\* that starts while a pass is in flight returns at once, having called none
\* of its dependencies (no metadata refresh, no deltas, no order); it is not
\* queued and does not throw; the dropped call and the pass it overlapped
\* make at most one batch submission call between them, and exactly one when
\* that pass ends with its batch submitted.
C1_SingleFlight ==
  /\ Cardinality({c \in Calls : InFlight(c)}) <= 1
  /\ \A c \in Calls :
       outcome[c] = "dropped" =>
         /\ pc[c] = "done"
         /\ deps[c] = NoDeps
         /\ orderCalls[c] = 0
         /\ frames[c] = NoFrame
  /\ \A c \in Calls :
       overlapped[c] # 0 =>
         /\ outcome[c] = "dropped"
         /\ orderCalls[c] + orderCalls[overlapped[c]] <= 1
         /\ outcome[overlapped[c]] = "submitted" =>
              orderCalls[c] + orderCalls[overlapped[c]] = 1

\* C1 witness: a call was dropped while a pass was in flight, and that pass
\* has ended with its one batch submitted.
C1_Witness ==
  \E c \in Calls :
    /\ overlapped[c] # 0
    /\ outcome[c] = "dropped"
    /\ outcome[overlapped[c]] = "submitted"
    /\ orderCalls[overlapped[c]] = 1

\* C7.  When the batch order call is rejected, the invocation throws, it has
\* made exactly one order call (no retry), and it no longer holds the
\* single-flight guard: syncing is set afterwards only by another invocation
\* that runs a pass of its own.
C7_SubmissionFailure ==
  \A c \in Calls :
    deps[c].order = "rejected" =>
      /\ pc[c] = "done"
      /\ outcome[c] = "threw"
      /\ orderCalls[c] = 1
      /\ syncing => \E d \in Calls \ {c} : InFlight(d)

\* C7 witness: after an invocation's batch call was rejected, another
\* invocation has run a full pass up to its own batch call.
C7_Witness ==
  \E c \in Calls, d \in Calls :
    /\ deps[c].order = "rejected"
    /\ outcome[c] = "threw"
    /\ pc[d] = "order"
    /\ deps[d].computed

\* C8.  A rejected refreshMarkPrices() is not fatal: the invocation does not
\* throw, and goes on to compute deltas with the prices it has.
C8_RefreshFailureNotFatal ==
  \A c \in Calls :
    deps[c].refreshMarkPrices = "rejected" =>
      /\ outcome[c] # "threw"
      /\ deps[c].computed

\* The frames of the synchronous blocks that have run.
Frames == {frames[c] : c \in Calls} \ {NoFrame}

TargetCoins(frame) == {frame.targets[i].coin : i \in DOMAIN frame.targets}

\* C2.  Every delta's |targetSize| x reference price is at most
\* min(maxNotionalUsd, maxLeverage x follower equity), the reference price
\* being the implied entry price of the delta's target (a delta without a
\* target has target size 0).
C2_NotionalWithinCap ==
  \A frame \in Frames :
    LET cap ==
          QMin(risk.maxNotionalUsd,
               QMul(risk.maxLeverage, frame.follower.metrics.accountValueUsd))
    IN  \A i \in DOMAIN frame.deltas :
          LET delta == frame.deltas[i]
              prices == {frame.targets[k].impliedEntryPrice :
                           k \in {j \in DOMAIN frame.targets :
                                    frame.targets[j].coin = delta.coin}}
          IN  /\ prices = {} => delta.targetSize = Zero
              /\ \A price \in prices :
                   QLe(QMul(QAbs(delta.targetSize), price), cap)

\* C2 witness: a target whose notional exceeds a positive cap, cut so that
\* its delta's target size x price is exactly the cap.
C2_Witness ==
  \E frame \in Frames : \E i \in DOMAIN frame.targets :
    LET cap ==
          QMin(risk.maxNotionalUsd,
               QMul(risk.maxLeverage, frame.follower.metrics.accountValueUsd))
    IN  /\ QLt(Zero, cap)
        /\ QLt(cap, frame.targets[i].notionalUsd)
        /\ frame.deltas[i].coin = frame.targets[i].coin
        /\ QMul(QAbs(frame.deltas[i].targetSize),
                frame.targets[i].impliedEntryPrice) = cap

\* The follower positions of a frame whose coin has no target.
Abandoned(frame) ==
  {frame.follower.positions[i] : i \in DOMAIN frame.follower.positions}
    \ {p \in {frame.follower.positions[i] :
                i \in DOMAIN frame.follower.positions} :
         p.coin \in TargetCoins(frame)}

HasCloseDelta(frame, p) ==
  \E k \in DOMAIN frame.deltas :
    /\ frame.deltas[k].coin = p.coin
    /\ frame.deltas[k].targetSize = Zero
    /\ frame.deltas[k].deltaSize = QInt(-p.size)

OrdersFor(frame, coin) ==
  {j \in DOMAIN frame.orders : frame.orders[j].a = MarketCatalog[coin].assetId}

\* x is y rounded to the size precision of the coin's market.
IsRounded(x, y, coin) ==
  LET step == Q(UnitsPerCoin, Pow10(MarketCatalog[coin].sizeDecimals))
  IN  /\ QDiv(x, step).d = 1
      /\ QLe(QAbs(QSub(x, y)), QDiv(step, QInt(2)))

\* C5 as stated.  Every follower position without target whose size exceeds
\* the dust threshold of computeDeltas gets a closing delta (target 0, delta
\* = -size), and the batch holds an order for it: opposite side, size
\* |size| (as the order carries it, rounded to the market's size precision),
\* reduce-only.
C5_AbandonedExposureClosed ==
  \A frame \in Frames : \A p \in Abandoned(frame) :
    QLt(CLOSE_DUST, QAbs(QInt(p.size))) =>
      /\ HasCloseDelta(frame, p)
      /\ \E j \in OrdersFor(frame, p.coin) :
           /\ frame.orders[j].b = (p.size < 0)
           /\ IsRounded(frame.orders[j].s, QInt(Abs(p.size)), p.coin)
           /\ frame.orders[j].r = TRUE

\* C5 amended.  Every follower position without target whose size exceeds
\* 1e-9 gets a closing delta (target 0, delta = -size).  A pass that reaches
\* its batch call submits an order for it exactly when its size exceeds
\* MIN_ABS_DELTA (1e-6): one order, on the opposite side, reduce-only, of
\* size |size| rounded to the market's size precision.
C5_AbandonedExposureClosedAboveDust ==
  \A frame \in Frames : \A p \in Abandoned(frame) :
    QLt(CLOSE_DUST, QAbs(QInt(p.size))) =>
      /\ HasCloseDelta(frame, p)
      /\ frame.built =>
           IF Abs(p.size) > MIN_ABS_DELTA
           THEN /\ Cardinality(OrdersFor(frame, p.coin)) = 1
                /\ \A j \in OrdersFor(frame, p.coin) :
                     /\ frame.orders[j].b = (p.size < 0)
                     /\ IsRounded(frame.orders[j].s, QInt(Abs(p.size)), p.coin)
                     /\ frame.orders[j].r = TRUE
           ELSE OrdersFor(frame, p.coin) = {}

\* C5 witness: the follower is long a coin the leader does not hold, above
\* MIN_ABS_DELTA, and the batch holds the reduce-only sell that closes it.
C5_Witness ==
  \E frame \in Frames : \E p \in Abandoned(frame) :
    /\ p.size > MIN_ABS_DELTA
    /\ HasCloseDelta(frame, p)
    /\ \E j \in OrdersFor(frame, p.coin) :
         /\ frame.orders[j].b = FALSE
         /\ frame.orders[j].r = TRUE
         /\ frame.orders[j].s # Zero

\* The claims about the orders of a batch: order i is built from the i-th
\* actionable delta.
OrderCases(frame) == DOMAIN frame.orders

WithinDust(size) == QLt(QAbs(size), QInt(MIN_ABS_DELTA))

\* C6 as stated.  reduceOnly is true when the target size is within the dust
\* threshold of zero, or when current and target have the same direction and
\* |target| < |current|; it is false when there is no current position or
\* when the target's direction is opposite to the current position's.
C6_ReduceOnlyFlag ==
  \A frame \in Frames : \A i \in OrderCases(frame) :
    LET delta == frame.actionable[i]
        order == frame.orders[i]
        current == delta.current
        target == delta.targetSize
    IN  /\ WithinDust(target) => order.r
        /\ (/\ current # undefined
            /\ QSign(QInt(current.size)) = QSign(target)
            /\ QLt(QAbs(target), QAbs(QInt(current.size)))) => order.r
        /\ current = undefined => ~ order.r
        /\ (/\ current # undefined
            /\ QSign(QInt(current.size)) * QSign(target) < 0) => ~ order.r

\* C6 amended.  As C6, with the flip case limited to targets beyond the dust
\* threshold: a target of opposite direction within the dust threshold of
\* zero is a close, and its order is reduce-only.
C6_ReduceOnlyFlagDustFirst ==
  \A frame \in Frames : \A i \in OrderCases(frame) :
    LET delta == frame.actionable[i]
        order == frame.orders[i]
        current == delta.current
        target == delta.targetSize
    IN  /\ WithinDust(target) => order.r
        /\ (/\ current # undefined
            /\ QSign(QInt(current.size)) = QSign(target)
            /\ QLt(QAbs(target), QAbs(QInt(current.size)))) => order.r
        /\ current = undefined => ~ order.r
        /\ (/\ current # undefined
            /\ ~ WithinDust(target)
            /\ QSign(QInt(current.size)) * QSign(target) < 0) => ~ order.r

\* C6 witness: a batch with a reduce-only order for a target of opposite
\* direction within the dust threshold, beside an order that is not
\* reduce-only.
C6_Witness ==
  \E frame \in Frames : \E i \in OrderCases(frame), k \in OrderCases(frame) :
    /\ frame.actionable[i].current # undefined
    /\ WithinDust(frame.actionable[i].targetSize)
    /\ QSign(QInt(frame.actionable[i].current.size))
         * QSign(frame.actionable[i].targetSize) < 0
    /\ frame.orders[i].r
    /\ ~ frame.orders[k].r

\* The reference price of a delta in a frame: the mark price of its coin when
\* the cache has one, else the entry price of the current position, else 0.
RefOf(frame, delta) ==
  IF frame.marks[delta.coin] # undefined THEN frame.marks[delta.coin]
  ELSE IF delta.current # undefined THEN delta.current.entryPrice
  ELSE Zero

\* C9.  Every actionable delta gets an order (the pass does not fault) whose
\* price is derived from the reference price: the mark price when there is
\* one, else the entry price of the current position, else 0.  The price
\* lies within [0.1 x, 10 x] of that reference, equals it when no slippage
\* is configured, and is 0 when there is neither mark price nor position.
C9_ReferencePriceFallback ==
  \A frame \in Frames :
    /\ frame.built
    /\ Len(frame.orders) = Len(frame.actionable)
    /\ \A i \in OrderCases(frame) :
         LET delta == frame.actionable[i]
             order == frame.orders[i]
             ref == RefOf(frame, delta)
         IN  /\ QLe(QMul(ref, Q(1, 10)), order.p)
             /\ QLe(order.p, QMul(ref, QInt(10)))
             /\ risk.maxSlippageBps = 0 => order.p = ref
             /\ (frame.marks[delta.coin] = undefined /\ delta.current = undefined)
                  => order.p = Zero

\* C9 witness: a batch with an order of price 0 for a delta without mark
\* price and without current position, beside an order priced from the entry
\* price of the current position for want of a mark price.
C9_Witness ==
  \E frame \in Frames : \E i \in OrderCases(frame), k \in OrderCases(frame) :
    /\ frame.marks[frame.actionable[i].coin] = undefined
    /\ frame.actionable[i].current = undefined
    /\ frame.orders[i].p = Zero
    /\ frame.marks[frame.actionable[k].coin] = undefined
    /\ frame.actionable[k].current # undefined
    /\ frame.orders[k].p # Zero

\* C10.  The limit price is the reference price x (1 + maxSlippageBps/10000)
\* for a buy and x (1 - maxSlippageBps/10000) for a sell, clamped to
\* [0.1 x reference, 10 x reference]; so a buy's limit is at least the
\* reference, a sell's at most the reference, and every limit lies within
\* [0.1 x, 10 x] of the reference.
C10_LimitPriceBounds ==
  \A frame \in Frames : \A i \in OrderCases(frame) :
    LET delta == frame.actionable[i]
        order == frame.orders[i]
        ref == RefOf(frame, delta)
        slippage == Q(risk.maxSlippageBps, 10000)
        raw == IF order.b THEN QMul(ref, QAdd(QInt(1), slippage))
                          ELSE QMul(ref, QSub(QInt(1), slippage))
        low == QMul(ref, Q(1, 10))
        high == QMul(ref, QInt(10))
    IN  /\ order.b = QLt(Zero, delta.deltaSize)
        /\ order.p = IF QLt(raw, low) THEN low
                     ELSE IF QLt(high, raw) THEN high ELSE raw
        /\ order.b => QLe(ref, order.p)
        /\ ~ order.b => QLe(order.p, ref)
        /\ QLe(low, order.p)
        /\ QLe(order.p, high)

\* C10 witness: a buy whose slippage-adjusted price exceeds 10 x the
\* reference and is cut to it, beside a sell priced strictly between 0.1 x
\* the reference and the reference.
C10_Witness ==
  \E frame \in Frames : \E i \in OrderCases(frame), k \in OrderCases(frame) :
    LET refI == RefOf(frame, frame.actionable[i])
        refK == RefOf(frame, frame.actionable[k])
    IN  /\ frame.orders[i].b
        /\ QLt(Zero, refI)
        /\ QLt(QMul(refI, QInt(10)),
               QMul(refI, QAdd(QInt(1), Q(risk.maxSlippageBps, 10000))))
        /\ frame.orders[i].p = QMul(refI, QInt(10))
        /\ ~ frame.orders[k].b
        /\ QLt(Zero, refK)
        /\ frame.orders[k].p = QMul(refK, Q(1, 10))

\* C4.  A fill whose token is not newer than the last one applied for its
\* coin (an older one or a replay) leaves the store as it is; a fill with a
\* newer token adds its size to the position and becomes the last applied
\* token; the last applied token of a coin never goes back.
C4_MonotonicIdempotentFills ==
  [][LET op == lastOp'
     IN  op.op = "applyFill" =>
           LET before == stores[op.id]
               after == stores'[op.id]
               old == getPosition(before.positions, op.coin)
               new == getPosition(after.positions, op.coin)
               oldSize == IF old = undefined THEN 0 ELSE old.size
               newSize == IF new = undefined THEN 0 ELSE new.size
           IN  /\ op.token <= before.lastToken[op.coin] => after = before
               /\ op.token > before.lastToken[op.coin] =>
                    /\ after.lastToken[op.coin] = op.token
                    /\ newSize = oldSize + op.fillSizeDelta
               /\ \A c \in Coins : after.lastToken[c] >= before.lastToken[c]
    ]_vars

\* C4 witness: token 2 was replayed for a coin whose last applied token is 3,
\* after at least two fills had built its position.
C4_Witness ==
  /\ lastOp.op = "applyFill"
  /\ lastOp.token = 2
  /\ stores[lastOp.id].lastToken[lastOp.coin] = 3
  /\ getPosition(stores[lastOp.id].positions, lastOp.coin) # undefined
  /\ Abs(getPosition(stores[lastOp.id].positions, lastOp.coin).size) = 3

\* What applySnapshot leaves of a snapshot: its entries of non-zero size.
Replaced(store, op) ==
  /\ store.positions = SelectSeq(op.snapshot, LAMBDA p : p.size # 0)
  /\ store.metrics = op.metrics

C11_ExecutorNeverWritesStores ==
  [][/\ (\E c \in Calls : pc'[c] # pc[c]) => stores' = stores
     /\ stores' # stores => execVars' = execVars
    ]_vars

\* C11 witness: with positions in both stores, one invocation was dropped
\* and the pass it overlapped has ended with its batch submitted.
C11_Witness ==
  \E c \in Calls :
    /\ outcome[c] = "dropped"
    /\ overlapped[c] # 0
    /\ outcome[overlapped[c]] = "submitted"
    /\ stores["leader"].positions # << >>
    /\ stores["follower"].positions # << >>

\* The deltas of a list whose |deltaSize| is above MIN_ABS_DELTA.
AboveDust(deltas) ==
  {i \in DOMAIN deltas : QLt(QInt(MIN_ABS_DELTA), QAbs(deltas[i].deltaSize))}

\* The deltas computeDeltas returns in the current state of the stores.
CurrentDeltas ==
  computeDeltas(
    computeTargets(stores["leader"].positions, stores["leader"].metrics, risk),
    stores["follower"].positions, stores["follower"].metrics, risk)

\* C12.  Pass pipeline.  While the batch call of a pass is pending, the batch
\* was built from exactly the deltas above the dust threshold, in their
\* order, with one immediate-or-cancel order per such delta on the market of
\* its coin, a buy iff deltaSize > 0, and the pass has made exactly one
\* order call; an invocation never makes more than one.  When the block
\* after the refresh runs and no delta is above the threshold, the pass ends
\* there without an order call; when some are, it does not end as
\* synchronized: it makes its one call, unless building an order throws.
C12_PassPipeline ==
  /\ [](\A c \in Calls :
          /\ orderCalls[c] <= 1
          /\ outcome[c] = "synchronized" => orderCalls[c] = 0
          /\ outcome[c] = "submitted" => orderCalls[c] = 1
          /\ pc[c] = "order" =>
               LET frame == frames[c]
               IN  /\ orderCalls[c] = 1
                   /\ frame.actionable # << >>
                   /\ Len(frame.actionable) = Cardinality(AboveDust(frame.deltas))
                   /\ \A i \in DOMAIN frame.actionable :
                        /\ i \in AboveDust(frame.actionable)
                        /\ \E k \in AboveDust(frame.deltas) :
                             /\ frame.deltas[k] = frame.actionable[i]
                             /\ Cardinality({j \in AboveDust(frame.deltas) :
                                               j <= k}) = i
                   /\ Len(frame.orders) = Len(frame.actionable)
                   /\ \A i \in DOMAIN frame.orders :
                        /\ frame.orders[i].t = "Ioc"
                        /\ frame.orders[i].a =
                             MarketCatalog[frame.actionable[i].coin].assetId
                        /\ frame.orders[i].b =
                             QLt(Zero, frame.actionable[i].deltaSize))
  /\ [][\A c \in Calls :
          (pc[c] = "refreshMarkPrices" /\ deps'[c].computed) =>
            IF AboveDust(CurrentDeltas) = {}
            THEN /\ outcome'[c] = "synchronized"
                 /\ orderCalls'[c] = 0
            ELSE /\ outcome'[c] # "synchronized"
                 /\ outcome'[c] = "threw" \/ pc'[c] = "order"
                 /\ pc'[c] = "order" =>
                      /\ orderCalls'[c] = 1
                      /\ frames'[c].deltas = CurrentDeltas
                 /\ outcome'[c] = "threw" =>
                      /\ orderCalls'[c] = 0
                      /\ \E i \in AboveDust(CurrentDeltas) :
                           CurrentDeltas[i].coin \notin markets
       ]_vars

\* C12 witness: the batch call of a pass is pending; computeDeltas returned
\* a delta within the dust threshold, which was dropped, and one above it,
\* for which the batch holds a sell.
C12_Witness ==
  \E c \in Calls :
    /\ pc[c] = "order"
    /\ Len(frames[c].actionable) < Len(frames[c].deltas)
    /\ \E i \in DOMAIN frames[c].deltas :
         /\ frames[c].deltas[i].deltaSize # Zero
         /\ i \notin AboveDust(frames[c].deltas)
    /\ \E i \in DOMAIN frames[c].orders : ~ frames[c].orders[i].b

\* The cap of a frame: min(maxNotionalUsd, maxLeverage x follower equity).
CapOf(frame) ==
  QMin(risk.maxNotionalUsd,
       QMul(risk.maxLeverage, frame.follower.metrics.accountValueUsd))

\* The size the follower of a frame holds in a coin, 0 without position.
HeldSize(frame, coin) ==
  LET held == {frame.follower.positions[k].size :
                 k \in {j \in DOMAIN frame.follower.positions :
                          frame.follower.positions[j].coin = coin}}
  IN  IF held = {} THEN 0 ELSE CHOOSE s \in held : TRUE

\* C13.  The i-th delta is the delta of the i-th target: its maxNotionalUsd
\* is min(target notional, cap); its targetSize has the sign of the target
\* and the magnitude allowedNotional / impliedEntryPrice, and is 0 when that
\* price is 0; its deltaSize is targetSize minus the size the follower holds
\* (0 without position), and its current is that position.  When the target
\* notional is within the cap and the price is positive, targetSize is
\* leaderSize x copyRatio.
C13_DeltaPerTarget ==
  \A frame \in Frames :
    /\ Len(frame.deltas) >= Len(frame.targets)
    /\ \A i \in DOMAIN frame.targets :
         LET target == frame.targets[i]
             delta == frame.deltas[i]
             price == target.impliedEntryPrice
             allowed == QMin(target.notionalUsd, CapOf(frame))
         IN  /\ delta.coin = target.coin
             /\ delta.maxNotionalUsd = allowed
             /\ price = Zero => delta.targetSize = Zero
             /\ QLt(Zero, price) =>
                  /\ QMul(delta.targetSize, price) =
                       QMul(QInt(QSign(target.size)), allowed)
                  /\ QLe(target.notionalUsd, CapOf(frame)) =>
                       delta.targetSize =
                         QMul(QInt(frame.leader.positions[i].size),
                              risk.copyRatio)
             /\ delta.deltaSize =
                  QSub(delta.targetSize, QInt(HeldSize(frame, target.coin)))
             /\ delta.current = getPosition(frame.follower.positions,
                                            target.coin)
             /\ (delta.current = undefined) = (HeldSize(frame, target.coin) = 0)

\* C13 witness: a leader long whose target notional is within the cap, at a
\* positive price, the follower flat in that coin but holding another one
\* that is a target too: the delta is + leaderSize x copyRatio and its order
\* a buy that is not reduce-only, while the other delta subtracts the size
\* held.
C13_Witness ==
  \E frame \in Frames : \E i \in DOMAIN frame.targets, k \in DOMAIN frame.targets :
    /\ frame.leader.positions[i].size > 0
    /\ QLt(Zero, frame.targets[i].impliedEntryPrice)
    /\ QLe(frame.targets[i].notionalUsd, CapOf(frame))
    /\ frame.deltas[i].current = undefined
    /\ frame.deltas[i].deltaSize =
         QMul(QInt(frame.leader.positions[i].size), risk.copyRatio)
    /\ \E j \in OrdersFor(frame, frame.targets[i].coin) :
         frame.orders[j].b /\ ~ frame.orders[j].r
    /\ frame.deltas[k].current # undefined
    /\ frame.deltas[k].deltaSize # frame.deltas[k].targetSize

\* C14.  computeTargets returns one target per leader position, in the
\* order of the positions: same coin, size = leaderSize x copyRatio,
\* notionalUsd = |size| x leader entry price, impliedEntryPrice = leader
\* entry price, impliedLeverage = notionalUsd / leader account value, and 0
\* when that account value is 0.
C14_TargetPerLeaderPosition ==
  \A frame \in Frames :
    /\ Len(frame.targets) = Len(frame.leader.positions)
    /\ \A i \in DOMAIN frame.targets :
         LET target == frame.targets[i]
             position == frame.leader.positions[i]
             equity == frame.leader.metrics.accountValueUsd
         IN  /\ target.coin = position.coin
             /\ target.size = QMul(QInt(position.size), risk.copyRatio)
             /\ target.notionalUsd = QMul(QAbs(target.size), position.entryPrice)
             /\ target.impliedEntryPrice = position.entryPrice
             /\ equity = Zero => target.impliedLeverage = Zero
             /\ equity # Zero =>
                  QMul(target.impliedLeverage, equity) = target.notionalUsd

\* C14 witness: two leader positions scaled by a copy ratio of 1/2, one
\* long and one short, with a leader account value of 0: two targets of
\* positive notional and implied leverage 0.
C14_Witness ==
  \E frame \in Frames :
    /\ risk.copyRatio = Q(1, 2)
    /\ frame.leader.metrics.accountValueUsd = Zero
    /\ Len(frame.targets) = 2
    /\ QLt(Zero, frame.targets[1].size)
    /\ QLt(frame.targets[2].size, Zero)
    /\ \A i \in DOMAIN frame.targets :
         /\ QLt(Zero, frame.targets[i].notionalUsd)
         /\ frame.targets[i].impliedLeverage = Zero

C16_StoreInvariant ==
  \A id \in Identities :
    LET positions == stores[id].positions
    IN  /\ \A i \in DOMAIN positions, j \in DOMAIN positions :
             positions[i].coin = positions[j].coin => i = j
        /\ \A i \in DOMAIN positions : positions[i].size # 0

\* C16 witness: no snapshot has been applied (the metrics are those of the
\* construction), fills were applied for a coin up to the highest token, the
\* last of size -1, and the store has no entry for that coin: the fills
\* brought its position back to zero; the store holds the other coin.
C16_Witness ==
  /\ lastOp.op = "applyFill"
  /\ stores[lastOp.id].metrics = EmptyStore.metrics
  /\ lastOp.fillSizeDelta = -1
  /\ lastOp.token = MaxToken
  /\ stores[lastOp.id].lastToken[lastOp.coin] = lastOp.token
  /\ lastOp.coin \notin CoinsOf(stores[lastOp.id].positions)
  /\ stores[lastOp.id].positions # << >>

\* The place of a coin in the follower's positions of a frame.
PlaceOf(frame, coin) ==
  CHOOSE k \in DOMAIN frame.follower.positions :
    frame.follower.positions[k].coin = coin

\* C17.  The deltas come in a fixed order: first one per target, in the
\* order of the targets, which is the order of the leader's positions; then
\* the closing deltas, in the order of the follower's positions.
C17_StableDeltaOrder ==
  \A frame \in Frames :
    LET n == Len(frame.targets)
    IN  /\ Len(frame.deltas) >= n
        /\ \A i \in 1..n :
             /\ frame.targets[i].coin = frame.leader.positions[i].coin
             /\ frame.deltas[i].coin = frame.targets[i].coin
        /\ \A k \in (n + 1)..Len(frame.deltas) :
             /\ frame.deltas[k].coin \notin TargetCoins(frame)
             /\ frame.deltas[k].targetSize = Zero
             /\ frame.deltas[k].current # undefined
             /\ frame.deltas[k].current \in Abandoned(frame)
        /\ \A k \in (n + 1)..Len(frame.deltas), l \in (n + 1)..Len(frame.deltas) :
             k < l => PlaceOf(frame, frame.deltas[k].coin)
                        < PlaceOf(frame, frame.deltas[l].coin)

\* C17 witness: a delta towards a target followed by a closing delta, the
\* follower holding the closed coin before the target's coin.
C17_Witness ==
  \E frame \in Frames :
    /\ Len(frame.targets) = 1
    /\ Len(frame.deltas) = 2
    /\ Len(frame.follower.positions) = 2
    /\ frame.follower.positions[1].coin = frame.deltas[2].coin
    /\ frame.follower.positions[2].coin = frame.deltas[1].coin

\* C18.  One view per pass.  The batch of a pass whose order call is pending
\* is derived, order by order, from one state of the leader store and one
\* state of the follower store; these are the stores as they were when the
\* price refresh resumed, so with every fill or snapshot applied until
\* then; and while the order call is pending no step, of Event Ingestion or
\* of another invocation, changes the batch.
C18_OneViewPerPass ==
  /\ [](\A c \in Calls :
          pc[c] = "order" =>
            LET frame == frames[c]
                targets ==
                  computeTargets(frame.leader.positions, frame.leader.metrics,
                                 risk)
                deltas ==
                  computeDeltas(targets, frame.follower.positions,
                                frame.follower.metrics, risk)
            IN  /\ frame.targets = targets
                /\ frame.deltas = deltas
                /\ Len(frame.orders) = Cardinality(AboveDust(deltas))
                /\ \A i \in DOMAIN frame.orders :
                     /\ frame.actionable[i] \in {deltas[k] : k \in DOMAIN deltas}
                     /\ frame.orders[i] =
                          buildOrder(frame.actionable[i], risk, frame.marks))
  /\ [][\A c \in Calls :
          /\ (pc[c] = "refreshMarkPrices" /\ pc'[c] = "order") =>
               /\ frames'[c].leader = stores["leader"]
               /\ frames'[c].follower = stores["follower"]
               /\ frames'[c].marks = markPrice'
               /\ stores' = stores
          /\ (pc[c] = "order" /\ pc'[c] = "order") => frames'[c] = frames[c]
       ]_vars

\* C18 witness: while the order call of a pass is pending, snapshots have
\* changed both stores; the batch is still the one built from the stores
\* the pass read.
C18_Witness ==
  \E c \in Calls :
    /\ pc[c] = "order"
    /\ frames[c].orders # << >>
    /\ frames[c].leader # stores["leader"]
    /\ frames[c].follower # stores["follower"]
    /\ frames[c].leader.positions # << >>
    /\ lastOp.op = "applySnapshot"

\* C19.  The syncing flag is set exactly while a pass is in flight.  The
\* step that ends a pass, by any path, clears it; the step that drops a
\* call finds it set and leaves it set, with the pass in flight still in
\* flight; and a call made while no pass is in flight starts a pass: an
\* ended pass never leaves the executor unable to sync.
C19_GuardInvariant ==
  /\ [](syncing = (\E c \in Calls : InFlight(c)))
  /\ [][\A c \in Calls :
          /\ (InFlight(c) /\ pc'[c] = "done") =>
               /\ ~ syncing'
               /\ outcome'[c] \in {"synchronized", "submitted", "threw"}
          /\ (pc[c] = "idle" /\ outcome'[c] = "dropped") =>
               /\ syncing /\ syncing'
               /\ \E d \in Calls \ {c} : InFlight(d) /\ pc'[d] = pc[d]
          /\ (pc[c] = "idle" /\ pc'[c] # "idle"
                /\ ~ \E d \in Calls : InFlight(d)) =>
               pc'[c] = "ensureLoaded" /\ syncing'
       ]_vars

\* C19 witness: a call was dropped by a pass that then ended with an error
\* while building its orders (no metadata for a coin); the flag is clear.
C19_Witness ==
  \E c \in Calls :
    /\ outcome[c] = "dropped"
    /\ overlapped[c] # 0
    /\ outcome[overlapped[c]] = "threw"
    /\ deps[overlapped[c]].computed
    /\ deps[overlapped[c]].order = "none"
    /\ ~ syncing

RECURSIVE SumTargetNotional(_, _)
\* The sum over the first n targets of a frame of |targetSize| x
\* impliedEntryPrice of their deltas.
SumTargetNotional(frame, n) ==
  IF n = 0 THEN Zero
  ELSE QAdd(SumTargetNotional(frame, n - 1),
            QMul(QAbs(frame.deltas[n].targetSize),
                 frame.targets[n].impliedEntryPrice))

C21_PositiveOrderSize ==
  \A frame \in Frames : \A i \in OrderCases(frame) :
    QLt(Zero, frame.orders[i].s)

\* C22 as stated.  A reduce-only order is a reduction: the follower has a
\* current position, the order is on the side opposite to it, and
\* |deltaSize| is at most |current size|.
C22_ReduceOnlyIsReduction ==
  \A frame \in Frames : \A i \in OrderCases(frame) :
    LET delta == frame.actionable[i]
        order == frame.orders[i]
    IN  order.r =>
          /\ delta.current # undefined
          /\ order.b = (delta.current.size < 0)
          /\ QLe(QAbs(delta.deltaSize), QAbs(QInt(delta.current.size)))

\* C22 amended.  A reduce-only order is a reduction or a close: the follower
\* has a current position and the order is on the side opposite to it;
\* |deltaSize| is at most |current size|, except when the target is of the
\* opposite direction within the dust threshold (MIN_ABS_DELTA) of zero,
\* where |deltaSize| = |current size| + |target size|, less than
\* MIN_ABS_DELTA above |current size|.
C22_ReduceOnlyIsReductionOrClose ==
  \A frame \in Frames : \A i \in OrderCases(frame) :
    LET delta == frame.actionable[i]
        order == frame.orders[i]
        currentSize == QInt(delta.current.size)
        flipsIntoDust ==
          /\ WithinDust(delta.targetSize)
          /\ QSign(currentSize) * QSign(delta.targetSize) < 0
    IN  order.r =>
          /\ delta.current # undefined
          /\ order.b = (delta.current.size < 0)
          /\ ~ flipsIntoDust =>
               QLe(QAbs(delta.deltaSize), QAbs(currentSize))
          /\ flipsIntoDust =>
               /\ QAbs(delta.deltaSize) =
                    QAdd(QAbs(currentSize), QAbs(delta.targetSize))
               /\ QLt(QAbs(delta.deltaSize),
                      QAdd(QAbs(currentSize), QInt(MIN_ABS_DELTA)))

\* C22 witness: a batch with a reduce-only order that reduces a position
\* without closing it, beside a reduce-only order whose |deltaSize| exceeds
\* the size of the position it closes.
C22_Witness ==
  \E frame \in Frames : \E i \in OrderCases(frame), k \in OrderCases(frame) :
    /\ frame.orders[i].r
    /\ frame.actionable[i].targetSize # Zero
    /\ QLt(QAbs(frame.actionable[i].deltaSize),
           QAbs(QInt(frame.actionable[i].current.size)))
    /\ frame.orders[k].r
    /\ QLt(QAbs(QInt(frame.actionable[k].current.size)),
           QAbs(frame.actionable[k].deltaSize))

\* C23.  For every leader position the delta of its target has a target
\* size that is 0 or of the sign of the leader's size, and of magnitude at
\* most |leaderSize x copyRatio| (copyRatio, maxLeverage and maxNotionalUsd
\* positive, follower account value >= 0).
C23_NeverOppositeToLeader ==
  \A frame \in Frames :
    /\ Len(frame.deltas) >= Len(frame.leader.positions)
    /\ \A i \in DOMAIN frame.leader.positions :
         LET position == frame.leader.positions[i]
             delta == frame.deltas[i]
         IN  /\ delta.coin = position.coin
             /\ \/ delta.targetSize = Zero
                \/ QSign(delta.targetSize) = QSign(QInt(position.size))
             /\ QLe(QAbs(delta.targetSize),
                    QAbs(QMul(QInt(position.size), risk.copyRatio)))

\* C23 witness: a leader short whose target is cut by the cap to a smaller
\* short, beside a leader long copied in full, with the follower holding
\* the opposite direction in one of the two coins.
C23_Witness ==
  \E frame \in Frames :
    \E i \in DOMAIN frame.leader.positions, k \in DOMAIN frame.leader.positions :
      /\ frame.leader.positions[i].size < 0
      /\ QLt(frame.deltas[i].targetSize, Zero)
      /\ QLt(QMul(QInt(frame.leader.positions[i].size), risk.copyRatio),
             frame.deltas[i].targetSize)
      /\ frame.leader.positions[k].size > 0
      /\ frame.deltas[k].targetSize =
           QMul(QInt(frame.leader.positions[k].size), risk.copyRatio)
      /\ \E j \in {i, k} :
           /\ frame.deltas[j].current # undefined
           /\ frame.deltas[j].current.size * frame.leader.positions[j].size < 0

\* C25.  No coin appears twice in the deltas computed from the targets, a
\* coin with a target receives no closing delta after the targets' deltas,
\* and a batch holds at most one order per coin.
C25_OneDeltaPerCoin ==
  \A frame \in Frames :
    /\ \A i \in DOMAIN frame.deltas, j \in DOMAIN frame.deltas :
         frame.deltas[i].coin = frame.deltas[j].coin => i = j
    /\ \A k \in (Len(frame.targets) + 1)..Len(frame.deltas) :
         frame.deltas[k].coin \notin TargetCoins(frame)
    /\ \A coin \in Coins : Cardinality(OrdersFor(frame, coin)) <= 1

\* C25 witness: the follower holds both a coin with a target and a coin
\* without one; the deltas are the target's and the close, and both are
\* orders of the batch.
C25_Witness ==
  \E frame \in Frames :
    /\ Len(frame.targets) = 1
    /\ Len(frame.follower.positions) = 2
    /\ frame.deltas[1].current # undefined
    /\ Len(frame.deltas) = 2
    /\ frame.deltas[2].coin # frame.deltas[1].coin
    /\ Len(frame.orders) = 2

\* The follower of the frame holds, for every target, exactly the capped
\* target size, and no position within reach of an order in a coin without
\* target.
Synchronized(frame) ==
  /\ \A i \in DOMAIN frame.targets :
       QInt(HeldSize(frame, frame.targets[i].coin)) = frame.deltas[i].targetSize
  /\ \A p \in Abandoned(frame) : ~ QLt(QInt(MIN_ABS_DELTA), QAbs(QInt(p.size)))

\* C24, first half: a pass over a synchronized state submits no batch.
C24_SynchronizedPassIsEmpty ==
  \A frame \in Frames : Synchronized(frame) => frame.actionable = << >>

\* C24, second half: the pass after the complete fill of a batch, with the
\* leader's state and the follower's equity unchanged, submits no batch.
C24_FilledBatchSettles ==
  (lastOp = [op |-> "fillBatch"] /\ frames[2] # NoFrame)
    => frames[2].actionable = << >>

\* C24.  Synchronized state is a fixed point: a pass over a follower that
\* holds the capped target of every target and nothing above dust elsewhere
\* submits no batch, and when every order of a submitted batch has filled
\* completely at its stated size, with leader state and follower equity
\* unchanged, the next pass submits no batch.
C24_SynchronizedFixedPoint ==
  /\ C24_SynchronizedPassIsEmpty
  /\ C24_FilledBatchSettles

\* A synchronized follower with a target, and a filled batch followed by a
\* pass that has nothing left to do.
C24_Reached ==
  /\ lastOp = [op |-> "fillBatch"]
  /\ frames[2] # NoFrame
  /\ frames[2].targets # << >>
  /\ Synchronized(frames[2])

====
